---- MODULE Spec2Model ----
(***************************************************************************)
(* Model of src/app.py: the worker thread VideoProcessor.run (planning     *)
(* loop, progress accounting, cooperative stop flag, concatenate + encode) *)
(* and the driver VideoEditorApp (process_video, cancel_processing and the *)
(* three slots the worker's queued signals are delivered to), and the       *)
(* crop rectangle of zoom_on_random_spot.                                  *)
(*                                                                         *)
(* Time is counted in ticks of 1/TicksPerSec second, so that fractional    *)
(* clip durations exist; a frame rate is the rational fps / FpsDen.        *)
(* int(x) of a non-negative rational is the integer quotient (\div).       *)
(* Floating-point rounding of the products is not modelled: the products   *)
(* are exact rationals.                                                    *)
(***************************************************************************)
EXTENDS Integers, Sequences, FiniteSets, TLC

\* ---- bounds of the model -------------------------------------------------
TicksPerSec == 2
FpsDen == 2
MaxDur == 250
MaxFps == 3
MaxJobs == 2
MaxSide == 6

\* ---- literals of the code --------------------------------------------------
IntroSeconds == 16
PlaySeconds == 45
ZoomSeconds == 5
SkipSeconds == 10
ZoomLevel == 50

Jobs == 1..MaxJobs

VARIABLES
    dur1,             \* clip1.duration (intro video), in ticks
    dur2,             \* clip2.duration (main video), in ticks
    fps,              \* clip2.fps = fps / FpsDen
    clip_size,        \* clip.size of the clip handed to zoom_on_random_spot: <<w, h>>
    zoom_rect,        \* the rectangle zoom_on_random_spot last cropped to, <<>> before
    pc,               \* pc[j]: position of worker j in run
    running,          \* running[j]: self.running of processor j
    handles,          \* handles[j]: the clip handles worker j holds open
    total_frames,     \* locals of run, per worker
    processed_frames,
    current_time,
    processed_clips,
    queue,            \* queue[j]: signals of worker j on their way to the slots
    outFile,          \* what is at the output path
    processor,        \* VideoEditorApp.processor (0 = None)
    btn_edit,         \* enabled state of the two buttons
    btn_cancel,
    progress_bar,
    nJobs,            \* number of VideoProcessor objects created so far
    plan,             \* history: windows walked by worker j, in order
    hist,             \* history: what worker j emitted and did, in order
    delivered,        \* history: the signals of job j the slots received, in order
    acked,            \* history: the driver showed "Video processing cancelled" for job j
    observedStop,     \* history: worker j has read self.running == False
    opened,           \* history: the clip handles worker j has opened
    raised            \* history: number of exceptions raised inside run

configVars == <<dur1, dur2, fps>>
zoomVars == <<clip_size, zoom_rect>>
localVars == <<total_frames, processed_frames, current_time, processed_clips>>
driverVars == <<processor, btn_edit, btn_cancel, progress_bar, nJobs, delivered, acked>>
vars == <<dur1, dur2, fps, clip_size, zoom_rect, pc, running, handles, total_frames, processed_frames,
          current_time, processed_clips, queue, outFile, processor, btn_edit,
          btn_cancel, progress_bar, nJobs, plan, hist, delivered, acked,
          observedStop, opened, raised>>

Min(a, b) == IF a <= b THEN a ELSE b

Max(a, b) == IF a >= b THEN a ELSE b

Last(s) == s[Len(s)]

\* ---- the arithmetic of run -------------------------------------------------

IntroEndWhole(d1) == d1

\* min(16, clip1.duration)
IntroEnd(d1) == Min(IntroSeconds * TicksPerSec, d1)

TotalFramesAtLeastOne(f, d) == Max(1, (f * d) \div (FpsDen * TicksPerSec))

\* int(clip2.fps * clip2.duration)
TotalFrames(f, d) == (f * d) \div (FpsDen * TicksPerSec)

PlayEndUnclamped(ct, td) == ct + PlaySeconds * TicksPerSec

\* min(current_time + 45, total_duration)
PlayEnd(ct, td) == Min(ct + PlaySeconds * TicksPerSec, td)

\* min(current_time + 5, total_duration)
ZoomEnd(ct, td) == Min(ct + ZoomSeconds * TicksPerSec, td)

SkipEndStuck(ct) == ct

\* current_time += 10
SkipEnd(ct) == ct + SkipSeconds * TicksPerSec

PlayFramesSwapped(ct, end, f) == 0 - (((end - ct) * f) \div (TicksPerSec * FpsDen))

\* int((end_15sec - current_time) * clip2.fps)
PlayFrames(ct, end, f) == ((end - ct) * f) \div (TicksPerSec * FpsDen)

\* int(5 * clip2.fps)
ZoomFrames(f) == (ZoomSeconds * f) \div FpsDen

\* int(10 * clip2.fps)
SkipFrames(f) == (SkipSeconds * f) \div FpsDen

\* min(100, int(100 * processed_frames / total_frames)), total_frames /= 0
Percent(pf, tf) == Min(100, (100 * pf) \div tf)

\* ---- signals ---------------------------------------------------------------

\* signal.emit(...) from the worker thread: queued to the driver, logged
Emit(j, kind, val) ==
    /\ queue' = [queue EXCEPT ![j] = Append(@, <<kind, val>>)]
    /\ hist' = [hist EXCEPT ![j] = Append(@, <<kind, val>>)]

WithExitSecondOnly(h) == h \ {"clip2"}

\* leaving the with block closes both clips
WithExit(h) == {}

ExceptSignalWrong == "progress"

\* what the except clauses of run emit
ExceptSignal == "failed"

\* an exception inside the try: the with block is left, the handler emits
\* error_occurred with the exception's text
Raise(j, why) ==
    /\ pc' = [pc EXCEPT ![j] = "done"]
    /\ handles' = [handles EXCEPT ![j] = WithExit(@)]
    /\ raised' = [raised EXCEPT ![j] = @ + 1]
    /\ Emit(j, ExceptSignal, why)

\* QThread.isRunning()
isRunning(j) == pc[j] \notin {"idle", "done"}

\* ---- the worker: VideoProcessor.run ----------------------------------------

\* VideoFileClip(self.input_video1) succeeds
OpenClip1(j) ==
    /\ pc[j] = "open1"
    /\ handles' = [handles EXCEPT ![j] = {"clip1"}]
    /\ pc' = [pc EXCEPT ![j] = "open2"]
    /\ opened' = [opened EXCEPT ![j] = {"clip1"}]
    /\ UNCHANGED <<configVars, zoomVars, localVars, driverVars, running, queue, outFile,
                   plan, hist, observedStop, raised>>

\* VideoFileClip(self.input_video2) succeeds
OpenClip2(j) ==
    /\ pc[j] = "open2"
    /\ handles' = [handles EXCEPT ![j] = @ \cup {"clip2"}]
    /\ pc' = [pc EXCEPT ![j] = "setup"]
    /\ opened' = [opened EXCEPT ![j] = @ \cup {"clip2"}]
    /\ UNCHANGED <<configVars, zoomVars, localVars, driverVars, running, queue, outFile,
                   plan, hist, observedStop, raised>>

\* the intro subclip and the initialisation of the locals
Setup(j) ==
    /\ pc[j] = "setup"
    /\ processed_clips' = [processed_clips EXCEPT ![j] = <<<<"intro", 0, IntroEnd(dur1)>>>>]
    /\ total_frames' = [total_frames EXCEPT ![j] = TotalFrames(fps, dur2)]
    /\ processed_frames' = [processed_frames EXCEPT ![j] = 0]
    /\ current_time' = [current_time EXCEPT ![j] = 0]
    /\ pc' = [pc EXCEPT ![j] = "loop"]
    /\ UNCHANGED <<configVars, zoomVars, opened, driverVars, running, handles, queue, outFile,
                   plan, hist, observedStop, raised>>

\* while current_time < total_duration and self.running
LoopTest(j) ==
    /\ pc[j] = "loop"
    /\ IF current_time[j] < dur2
       THEN /\ pc' = [pc EXCEPT ![j] = IF running[j] THEN "play" ELSE "post"]
            /\ observedStop' = [observedStop EXCEPT ![j] = @ \/ ~running[j]]
       ELSE /\ pc' = [pc EXCEPT ![j] = "post"]
            /\ UNCHANGED observedStop
    /\ UNCHANGED <<configVars, zoomVars, opened, localVars, driverVars, running, handles, queue,
                   outFile, plan, hist, raised>>

\* the normal segment; the division raises when total_frames == 0
PlaySegment(j) ==
    /\ pc[j] = "play"
    /\ LET end == PlayEnd(current_time[j], dur2)
           pf == processed_frames[j] + PlayFrames(current_time[j], end, fps)
       IN IF total_frames[j] = 0
          THEN /\ Raise(j, "division by zero")
               /\ UNCHANGED <<localVars, plan>>
          ELSE /\ processed_clips' = [processed_clips EXCEPT ![j] =
                                         Append(@, <<"play", current_time[j], end>>)]
               /\ plan' = [plan EXCEPT ![j] = Append(@, <<"play", current_time[j], end>>)]
               /\ processed_frames' = [processed_frames EXCEPT ![j] = pf]
               /\ Emit(j, "progress", Percent(pf, total_frames[j]))
               /\ current_time' = [current_time EXCEPT ![j] = end]
               /\ pc' = [pc EXCEPT ![j] = IF end >= dur2 THEN "post" ELSE "zoom"]
               /\ UNCHANGED <<total_frames, handles, raised>>
    /\ UNCHANGED <<configVars, zoomVars, opened, driverVars, running, outFile, observedStop>>

\* the zoomed segment; the rectangle drawn inside zoom_on_random_spot belongs
\* to the frames of the zoom clip, which the clip records do not carry
ZoomSegment(j) ==
    /\ pc[j] = "zoom"
    /\ LET end == ZoomEnd(current_time[j], dur2)
           pf == processed_frames[j] + ZoomFrames(fps)
       IN IF total_frames[j] = 0
          THEN /\ Raise(j, "division by zero")
               /\ UNCHANGED <<localVars, plan>>
          ELSE /\ processed_clips' = [processed_clips EXCEPT ![j] =
                                         Append(@, <<"zoom", current_time[j], end>>)]
               /\ plan' = [plan EXCEPT ![j] = Append(@, <<"zoom", current_time[j], end>>)]
               /\ processed_frames' = [processed_frames EXCEPT ![j] = pf]
               /\ Emit(j, "progress", Percent(pf, total_frames[j]))
               /\ current_time' = [current_time EXCEPT ![j] = end]
               /\ pc' = [pc EXCEPT ![j] = IF end >= dur2 THEN "post" ELSE "skip"]
               /\ UNCHANGED <<total_frames, handles, raised>>
    /\ UNCHANGED <<configVars, zoomVars, opened, driverVars, running, outFile, observedStop>>

SkipClipsAppended(clips) == Append(clips, <<"skip", 0, 0>>)

\* processed_clips after the skip step: nothing is appended
SkipClips(clips) == clips

\* the skipped window
SkipSegment(j) ==
    /\ pc[j] = "skip"
    /\ LET end == SkipEnd(current_time[j])
           pf == processed_frames[j] + SkipFrames(fps)
       IN IF total_frames[j] = 0
          THEN /\ Raise(j, "division by zero")
               /\ UNCHANGED <<localVars, plan>>
          ELSE /\ plan' = [plan EXCEPT ![j] = Append(@, <<"skip", current_time[j], end>>)]
               /\ current_time' = [current_time EXCEPT ![j] = end]
               /\ processed_frames' = [processed_frames EXCEPT ![j] = pf]
               /\ Emit(j, "progress", Percent(pf, total_frames[j]))
               /\ pc' = [pc EXCEPT ![j] = "loop"]
               /\ processed_clips' = [processed_clips EXCEPT ![j] = SkipClips(@)]
               /\ UNCHANGED <<total_frames, handles, raised>>
    /\ UNCHANGED <<configVars, zoomVars, opened, driverVars, running, outFile, observedStop>>

EncodeGuardAlways(r) == TRUE

\* whether the block after the loop is entered: if self.running
EncodeGuard(r) == r

\* if self.running, after the loop; otherwise the with block is left
PostLoopTest(j) ==
    /\ pc[j] = "post"
    /\ observedStop' = [observedStop EXCEPT ![j] = @ \/ ~running[j]]
    /\ IF EncodeGuard(running[j])
       THEN /\ pc' = [pc EXCEPT ![j] = "concat"]
            /\ UNCHANGED handles
       ELSE /\ pc' = [pc EXCEPT ![j] = "done"]
            /\ handles' = [handles EXCEPT ![j] = WithExit(@)]
    /\ UNCHANGED <<configVars, zoomVars, opened, localVars, driverVars, running, queue, outFile,
                   plan, hist, raised>>

\* concatenate_videoclips, the watermark and the composite
Concatenate(j) ==
    /\ pc[j] = "concat"
    /\ pc' = [pc EXCEPT ![j] = "write"]
    /\ hist' = [hist EXCEPT ![j] = Append(@, <<"concat", Len(processed_clips[j])>>)]
    /\ UNCHANGED <<configVars, zoomVars, opened, localVars, driverVars, running, handles, queue,
                   outFile, plan, observedStop, raised>>

\* write_videofile succeeds, processing_finished is emitted, the with block is left
WriteVideofile(j) ==
    /\ pc[j] = "write"
    /\ outFile' = "complete"
    /\ queue' = [queue EXCEPT ![j] = Append(@, <<"completed", 0>>)]
    /\ hist' = [hist EXCEPT ![j] = @ \o <<<<"write", 0>>, <<"completed", 0>>>>]
    /\ pc' = [pc EXCEPT ![j] = "done"]
    /\ handles' = [handles EXCEPT ![j] = WithExit(@)]
    /\ UNCHANGED <<configVars, zoomVars, opened, localVars, driverVars, running, plan,
                   observedStop, raised>>

\* an exception of the decode engine: open, subclip, crop, concatenate
DecodeFails(j) ==
    /\ pc[j] \in {"open1", "open2", "setup", "play", "zoom", "concat"}
    /\ Raise(j, "engine error")
    /\ UNCHANGED <<configVars, zoomVars, opened, localVars, driverVars, running, outFile, plan,
                   observedStop>>

\* an exception of write_videofile: the encoder may have begun the file
EncodeFails(j) ==
    /\ pc[j] = "write"
    /\ \E f \in {outFile, "partial"} : outFile' = f
    /\ Raise(j, "engine error")
    /\ UNCHANGED <<configVars, zoomVars, opened, localVars, driverVars, running, plan, observedStop>>

\* random.randint(a, b): any integer of a..b, both ends included
randint(a, b) == a..b

ZoomSideScaled(side, zoom_level) == (side * (100 + zoom_level)) \div 100

\* int(w / zoom_factor) with zoom_factor = 1 + zoom_level / 100.0
ZoomSide(side, zoom_level) == (side * 100) \div (100 + zoom_level)

\* zoom_on_random_spot: the crop rectangle drawn for a clip of clip_size.
\* The segment records of the worker carry no frames, so ZoomSegment does not
\* keep the rectangle; the function is run here on every frame size.
zoom_on_random_spot ==
    LET w == clip_size[1]
        h == clip_size[2]
        zoom_w == ZoomSide(w, ZoomLevel)
        zoom_h == ZoomSide(h, ZoomLevel)
    IN /\ \E x1 \in randint(0, Max(0, w - zoom_w)) :
          \E y1 \in randint(0, Max(0, h - zoom_h)) :
             zoom_rect' = [x1 |-> x1, y1 |-> y1, x2 |-> x1 + zoom_w, y2 |-> y1 + zoom_h]
       /\ UNCHANGED <<configVars, clip_size, pc, running, handles, localVars, queue,
                      outFile, driverVars, plan, hist, observedStop, opened, raised>>

\* ---- the driver: VideoEditorApp --------------------------------------------

\* whether process_video may create and start a processor
StartGuard(edit) == edit

\* Process Video clicked (the button is enabled, the paths are valid)
process_video ==
    /\ StartGuard(btn_edit)
    /\ nJobs < MaxJobs
    /\ LET j == nJobs + 1
       IN /\ nJobs' = j
          /\ processor' = j
          /\ pc' = [pc EXCEPT ![j] = "open1"]
          /\ running' = [running EXCEPT ![j] = TRUE]
    /\ btn_edit' = FALSE
    /\ btn_cancel' = TRUE
    /\ progress_bar' = 0
    /\ UNCHANGED <<configVars, zoomVars, opened, localVars, handles, queue, outFile, plan, hist,
                   delivered, acked, observedStop, raised>>

\* VideoProcessor.stop
stop(r) == FALSE

\* Cancel clicked while self.processor is running
cancel_processing ==
    /\ btn_cancel
    /\ processor # 0
    /\ isRunning(processor)
    /\ running' = [running EXCEPT ![processor] = stop(@)]
    /\ btn_edit' = TRUE
    /\ btn_cancel' = FALSE
    /\ acked' = [acked EXCEPT ![processor] = TRUE]
    /\ UNCHANGED <<configVars, zoomVars, opened, localVars, pc, handles, queue, outFile, processor,
                   progress_bar, nJobs, plan, hist, delivered, observedStop, raised>>

\* a queued signal of worker j reaches its slot: update_progress,
\* processing_complete or show_error. The signals of one sender arrive in the
\* order of emission; no order is assumed between two senders.
DeliverSignal(j) ==
    /\ queue[j] # <<>>
    /\ LET kind == Head(queue[j])[1]
           val == Head(queue[j])[2]
       IN /\ delivered' = [delivered EXCEPT ![j] = Append(@, <<kind, val>>)]
          /\ IF kind = "progress"
             THEN /\ progress_bar' = val
                  /\ UNCHANGED <<btn_edit, btn_cancel>>
             ELSE /\ btn_edit' = TRUE
                  /\ btn_cancel' = FALSE
                  /\ progress_bar' = IF kind = "completed" THEN 100 ELSE 0
    /\ queue' = [queue EXCEPT ![j] = Tail(@)]
    /\ UNCHANGED <<configVars, zoomVars, opened, localVars, pc, running, handles, outFile, processor,
                   nJobs, plan, hist, acked, observedStop, raised>>

\* ---- specifications --------------------------------------------------------

\* the clips the jobs of the driver model are run on (seconds, frame rates)
JobDurations == {0, 1, 52 * TicksPerSec}

JobFps == {1}

InitJobs ==
    /\ zoom_rect = <<>>
    /\ pc = [j \in Jobs |-> "idle"]
    /\ running = [j \in Jobs |-> TRUE]
    /\ handles = [j \in Jobs |-> {}]
    /\ total_frames = [j \in Jobs |-> 0]
    /\ processed_frames = [j \in Jobs |-> 0]
    /\ current_time = [j \in Jobs |-> 0]
    /\ processed_clips = [j \in Jobs |-> <<>>]
    /\ plan = [j \in Jobs |-> <<>>]
    /\ hist = [j \in Jobs |-> <<>>]
    /\ delivered = [j \in Jobs |-> <<>>]
    /\ acked = [j \in Jobs |-> FALSE]
    /\ observedStop = [j \in Jobs |-> FALSE]
    /\ opened = [j \in Jobs |-> {}]
    /\ raised = [j \in Jobs |-> 0]
    /\ queue = [j \in Jobs |-> <<>>]
    /\ outFile = "none"

\* the application after __init__ and init_ui
Init ==
    /\ dur1 = 20 * TicksPerSec
    /\ dur2 \in JobDurations
    /\ fps \in JobFps
    /\ clip_size = <<3, 2>>
    /\ InitJobs
    /\ processor = 0
    /\ btn_edit = TRUE
    /\ btn_cancel = FALSE
    /\ progress_bar = 0
    /\ nJobs = 0

Worker(j) ==
    \/ OpenClip1(j)
    \/ OpenClip2(j)
    \/ Setup(j)
    \/ LoopTest(j)
    \/ PlaySegment(j)
    \/ ZoomSegment(j)
    \/ SkipSegment(j)
    \/ PostLoopTest(j)
    \/ Concatenate(j)
    \/ WriteVideofile(j)
    \/ DecodeFails(j)
    \/ EncodeFails(j)

Next ==
    \/ process_video
    \/ cancel_processing
    \/ \E j \in Jobs : DeliverSignal(j)
    \/ \E j \in Jobs : Worker(j)

Spec == Init /\ [][Next]_vars

\* one worker run alone on every clip of the bounded family, never stopped
InitPlan ==
    /\ dur1 \in {10 * TicksPerSec, 20 * TicksPerSec}
    /\ dur2 \in 0..MaxDur
    /\ fps \in 1..MaxFps
    /\ clip_size = <<3, 2>>
    /\ zoom_rect = <<>>
    /\ pc = [j \in Jobs |-> IF j = 1 THEN "open1" ELSE "idle"]
    /\ running = [j \in Jobs |-> TRUE]
    /\ handles = [j \in Jobs |-> {}]
    /\ total_frames = [j \in Jobs |-> 0]
    /\ processed_frames = [j \in Jobs |-> 0]
    /\ current_time = [j \in Jobs |-> 0]
    /\ processed_clips = [j \in Jobs |-> <<>>]
    /\ plan = [j \in Jobs |-> <<>>]
    /\ hist = [j \in Jobs |-> <<>>]
    /\ delivered = [j \in Jobs |-> <<>>]
    /\ acked = [j \in Jobs |-> FALSE]
    /\ observedStop = [j \in Jobs |-> FALSE]
    /\ opened = [j \in Jobs |-> {}]
    /\ raised = [j \in Jobs |-> 0]
    /\ queue = [j \in Jobs |-> <<>>]
    /\ outFile = "none"
    /\ processor = 1
    /\ btn_edit = FALSE
    /\ btn_cancel = TRUE
    /\ progress_bar = 0
    /\ nJobs = 1

NextPlan == Worker(1)

PlanSpec == InitPlan /\ [][NextPlan]_vars

\* one worker on every clip of the bounded family, with the driver's Cancel;
\* the worker thread is scheduled fairly and every library call returns
NextStop ==
    \/ Worker(1)
    \/ cancel_processing

FairStopSpec == InitPlan /\ [][NextStop]_vars /\ WF_vars(Worker(1))

\* zoom_on_random_spot alone, on every frame size of the bounded family
InitZoom ==
    /\ dur1 = 20 * TicksPerSec
    /\ dur2 = 0
    /\ fps = 1
    /\ clip_size \in (1..MaxSide) \X (1..MaxSide)
    /\ InitJobs
    /\ processor = 0
    /\ btn_edit = TRUE
    /\ btn_cancel = FALSE
    /\ progress_bar = 0
    /\ nJobs = 0

NextZoom == zoom_on_random_spot

ZoomSpec == InitZoom /\ [][NextZoom]_vars

\* ---- properties ------------------------------------------------------------

Count(h, kind) == Len(SelectSeq(h, LAMBDA e : e[1] = kind))

ProgressValues(h) == SelectSeq(h, LAMBDA e : e[1] = "progress")

\* the planning loop of worker j has run to its natural end
LoopEnded(j) == pc[j] = "post" /\ current_time[j] >= dur2

\* every window is non-empty and starts where the previous one ended
PlanOrdered(p) ==
    \A i \in 1..Len(p) :
        /\ 0 <= p[i][2]
        /\ p[i][2] < p[i][3]
        /\ i > 1 => /\ p[i - 1][2] < p[i][2]
                    /\ p[i - 1][3] <= p[i][2]

C2_NoCompletionAfterAck ==
    [][\A j \in Jobs :
          acked[j] => /\ Count(hist'[j], "completed") = Count(hist[j], "completed")
                      /\ Count(hist'[j], "write") = Count(hist[j], "write")]_vars

\* the terminal events of job j: completed, failed, cancellation acknowledged
TerminalEvents(j) ==
    Count(hist[j], "completed") + Count(hist[j], "failed")
        + (IF acked[j] THEN 1 ELSE 0)

\* C3 as stated: a job whose worker has exited has had exactly one terminal
\* event among completed, failed and cancellation acknowledgement.
C3_ExactlyOneTerminalEvent ==
    \A j \in Jobs : pc[j] = "done" => TerminalEvents(j) = 1

\* the driver has seen a terminal event of job j
TerminalSeen(j) ==
    \/ acked[j]
    \/ Count(delivered[j], "completed") + Count(delivered[j], "failed") > 0

\* C4 as stated: after the terminal event of job j no further event of job j
\* is delivered to the driver.
C4_NothingAfterTerminal ==
    [][\A j \in Jobs : TerminalSeen(j) => delivered'[j] = delivered[j]]_vars

\* C5: the percentages of the progress events of one job are non-decreasing.
C5_ProgressNonDecreasing ==
    \A j \in Jobs :
        LET p == ProgressValues(hist[j])
        IN \A i \in 1..(Len(p) - 1) : p[i][2] <= p[i + 1][2]

\* C5 witness: a job whose progress has risen over at least four events
C5_Witness ==
    LET p == ProgressValues(hist[1])
    IN /\ Len(p) >= 4
       /\ p[1][2] < p[2][2]
       /\ p[3][2] < p[4][2]

\* C6 as stated: the last progress value emitted before completed is 100.
C6_FinalProgressIs100 ==
    \A j \in Jobs :
        Count(hist[j], "completed") > 0 =>
            LET p == ProgressValues(hist[j])
            IN p # <<>> => Last(p)[2] = 100

\* C7 as stated: at no time are two workers executing.
C7_OneWorkerAtATime ==
    Cardinality({j \in Jobs : isRunning(j)}) <= 1

\* C8: a worker that has read the stop flag as set, in the loop test or in the
\* test after the loop, concatenates nothing, encodes nothing and emits no
\* completed event.
C8_StopObservedNoEncode ==
    \A j \in Jobs :
        observedStop[j] => /\ Count(hist[j], "concat") = 0
                           /\ Count(hist[j], "write") = 0
                           /\ Count(hist[j], "completed") = 0
                           /\ pc[j] \in {"post", "done"}

\* C8 witness: a worker stopped in mid-plan has exited
C8_Witness ==
    \E j \in Jobs :
        /\ observedStop[j]
        /\ pc[j] = "done"
        /\ Count(hist[j], "progress") >= 1
        /\ Count(hist[j], "failed") = 0

\* C9: every failure raised inside run ends the run with exactly one failed
\* event, and a job that emitted failed emits no completed event.
C9_FailureBecomesOneFailed ==
    \A j \in Jobs :
        /\ raised[j] <= 1
        /\ Count(hist[j], "failed") = raised[j]
        /\ raised[j] = 1 => /\ pc[j] = "done"
                            /\ Last(hist[j])[1] = "failed"
                            /\ Count(hist[j], "completed") = 0

\* C9 witness: a failure after some progress, and one of the encode
C9_Witness ==
    \E j \in Jobs :
        /\ raised[j] = 1
        /\ Count(hist[j], "progress") >= 1
        /\ Count(hist[j], "concat") = 1

\* C10: a worker that has exited holds no clip handle, and a worker holds
\* only handles it has opened.
C10_HandlesReleased ==
    \A j \in Jobs :
        /\ handles[j] \subseteq opened[j]
        /\ pc[j] \in {"idle", "done"} => handles[j] = {}

\* C10 witness: the second clip failed to open after the first was opened
C10_Witness ==
    \E j \in Jobs :
        /\ pc[j] = "done"
        /\ opened[j] = {"clip1"}
        /\ raised[j] = 1

\* C11 as stated: the output path holds a file only when a job ended
\* Completed; a failed encode or a cancelled job leaves nothing there.
C11_OutputOnlyWhenCompleted ==
    \/ outFile = "none"
    \/ /\ outFile = "complete"
       /\ \E j \in Jobs : Count(hist[j], "completed") > 0 /\ ~acked[j]

\* C12: the rectangle zoom_on_random_spot crops to lies inside the frame, for
\* every frame size and every value randint can return.
C12_ZoomRectInFrame ==
    zoom_rect # <<>> =>
        /\ 0 <= zoom_rect.x1
        /\ 0 <= zoom_rect.y1
        /\ zoom_rect.x2 <= clip_size[1]
        /\ zoom_rect.y2 <= clip_size[2]
        /\ zoom_rect.x1 <= zoom_rect.x2
        /\ zoom_rect.y1 <= zoom_rect.y2

\* C12 witness: randint returned its upper end on both axes of a 5 x 4 frame
C12_Witness ==
    /\ clip_size = <<5, 4>>
    /\ zoom_rect # <<>>
    /\ zoom_rect.x1 = 2 /\ zoom_rect.x2 = 5
    /\ zoom_rect.y1 = 2 /\ zoom_rect.y2 = 4

\* C13 as stated, on its scenario: the plan is the cycle Play, Zoom, Skip from
\* t = 0 with contiguous windows, and a clip of 38 s is planned as Play[0,15),
\* Zoom[15,20), Skip[20,23), Play[23,38), the windows its comments name (a
\* 15-second normal segment, a 5-second zoomed segment, 3 seconds skipped).
C13_PlanOfScenario ==
    \A j \in Jobs :
        /\ \A i \in 1..Len(plan[j]) :
              /\ plan[j][i][1] = <<"play", "zoom", "skip">>[((i - 1) % 3) + 1]
              /\ plan[j][i][2] = IF i = 1 THEN 0 ELSE plan[j][i - 1][3]
        /\ (LoopEnded(j) /\ dur2 = 38 * TicksPerSec) =>
              plan[j] = << <<"play", 0, 15 * TicksPerSec>>,
                           <<"zoom", 15 * TicksPerSec, 20 * TicksPerSec>>,
                           <<"skip", 20 * TicksPerSec, 23 * TicksPerSec>>,
                           <<"play", 23 * TicksPerSec, 38 * TicksPerSec>> >>

\* worker j realizes a window in this step
SegmentStep(j) == Len(plan'[j]) = Len(plan[j]) + 1

\* C14 as stated: the stop flag is tested at every window boundary: a window
\* that ends with the flag already set (the one in flight when stop() was
\* called) is followed by no further window.
C14_NoSegmentAfterStop ==
    [][\A j \in Jobs :
          (~running[j] /\ SegmentStep(j)) => pc'[j] \notin {"play", "zoom", "skip"}]_vars

\* C15 as stated: every window adds int(frame rate x its span) frames to the
\* processed count, so the processed count never exceeds the total count.
C15_FramesMatchSpan ==
    /\ [][\A j \in Jobs :
             SegmentStep(j) =>
                 LET w == Last(plan'[j])
                 IN processed_frames'[j] - processed_frames[j]
                        = ((w[3] - w[2]) * fps) \div (TicksPerSec * FpsDen)]_vars
    /\ [](\A j \in Jobs : processed_frames[j] <= total_frames[j])

\* the windows of a plan that are not Skip windows
Rendered(p) == SelectSeq(p, LAMBDA w : w[1] # "skip")

RECURSIVE FramesOf(_)
\* the frames the windows of a plan add to processed_frames
FramesOf(p) ==
    IF p = <<>> THEN 0
    ELSE LET w == Last(p)
         IN FramesOf(SubSeq(p, 1, Len(p) - 1))
              + (CASE w[1] = "play" -> PlayFrames(w[2], w[3], fps)
                   [] w[1] = "zoom" -> ZoomFrames(fps)
                   [] OTHER -> SkipFrames(fps))

\* C16: a Skip window appends nothing to processed_clips but adds its frames
\* and emits a progress event like the others; the list handed to
\* concatenate_videoclips holds the intro and one unit per Play or Zoom window.
C16_SkipProducesNoUnit ==
    \A j \in Jobs :
        /\ processed_clips[j] # <<>> =>
              Len(processed_clips[j]) = 1 + Len(Rendered(plan[j]))
        /\ \A i \in 1..Len(hist[j]) :
              hist[j][i][1] = "concat" => hist[j][i][2] = 1 + Len(Rendered(plan[j]))
        /\ Count(hist[j], "progress") = Len(plan[j])
        /\ processed_clips[j] # <<>> => processed_frames[j] = FramesOf(plan[j])

\* C16 witness: a plan with a Skip window was handed to concatenation
C16_Witness ==
    \E j \in Jobs :
        /\ Count(hist[j], "concat") = 1
        /\ Len(plan[j]) = 3
        /\ Last(plan[j])[1] = "skip"
        /\ Len(processed_clips[j]) = 3
        /\ processed_frames[j] > FramesOf(SubSeq(plan[j], 1, 2))

\* C17 as stated: every Zoom window has the length min(5 s, D - t), which is
\* positive, and ends at or before D; and a clip of 17 s is planned as
\* Play[0,15), Zoom[15,17), the play window being the 15-second one.
C17_ZoomClamped ==
    \A j \in Jobs :
        /\ \A i \in 1..Len(plan[j]) :
              plan[j][i][1] = "zoom" =>
                  LET t == plan[j][i][2]
                      len == plan[j][i][3] - t
                  IN /\ len = Min(ZoomSeconds * TicksPerSec, dur2 - t)
                     /\ len > 0
                     /\ plan[j][i][3] <= dur2
        /\ (LoopEnded(j) /\ dur2 = 17 * TicksPerSec) =>
              plan[j] = << <<"play", 0, 15 * TicksPerSec>>,
                           <<"zoom", 15 * TicksPerSec, 17 * TicksPerSec>> >>

\* C18: every window step moves current_time strictly forward, so the loop
\* ends, and a started worker eventually exits: completed, failed or stopped.
C18_WorkerTerminates ==
    /\ [][\A j \in Jobs : SegmentStep(j) => current_time'[j] > current_time[j]]_vars
    /\ \A j \in Jobs : (pc[j] # "idle") ~> (pc[j] = "done")

\* C18 witness: a worker left the loop on the stop flag after a full cycle
C18_Witness ==
    /\ pc[1] = "done"
    /\ observedStop[1]
    /\ Len(plan[1]) >= 3
    /\ current_time[1] < dur2

\* C19: the list built for concatenation starts with the intro unit, the
\* leading min(16 s, duration) window of the intro clip, and the units after
\* it are windows of the main clip in strictly increasing order of start.
C19_IntroFirst ==
    \A j \in Jobs :
        LET c == processed_clips[j]
        IN c # <<>> =>
              /\ c[1][1] = "intro"
              /\ c[1][2] = 0
              /\ c[1][3] = (IF dur1 < IntroSeconds * TicksPerSec
                            THEN dur1 ELSE IntroSeconds * TicksPerSec)
              /\ \A i \in 2..Len(c) :
                    /\ c[i][1] \in {"play", "zoom"}
                    /\ i > 2 => c[i - 1][2] < c[i][2]

\* C19 witness: a list of the intro of a 20 s clip and three later units is
\* about to be concatenated
C19_Witness ==
    /\ pc[1] = "concat"
    /\ dur1 = 20 * TicksPerSec
    /\ Len(processed_clips[1]) >= 4
    /\ processed_clips[1][1][3] = IntroSeconds * TicksPerSec

\* the failed events of a history that report the division by zero
DivisionFailures(h) ==
    Len(SelectSeq(h, LAMBDA e : e[1] = "failed" /\ e[2] = "division by zero"))

\* int(fps * duration) == 0 for the main clip
NoFrames == (fps * dur2) \div (FpsDen * TicksPerSec) = 0

\* C20: a main clip of positive duration and zero total frames makes the
\* first progress computation divide by zero: the job ends failed, with no
\* progress, no written file and no completed event; with a total of at
\* least one frame the progress computation never fails.
C20_ZeroFramesFails ==
    \A j \in Jobs :
        /\ (NoFrames /\ dur2 > 0 /\ pc[j] = "done" /\ ~observedStop[j]) =>
              /\ Count(hist[j], "failed") = 1
              /\ Count(hist[j], "completed") = 0
              /\ Count(hist[j], "write") = 0
              /\ Count(hist[j], "progress") = 0
        /\ DivisionFailures(hist[j]) > 0 =>
              /\ NoFrames
              /\ dur2 > 0
              /\ Count(hist[j], "progress") = 0
        /\ ~NoFrames => DivisionFailures(hist[j]) = 0

\* C20 witness: a job on a clip of positive duration ended on the division
C20_Witness ==
    /\ pc[1] = "done"
    /\ dur2 > 0
    /\ DivisionFailures(hist[1]) = 1
    /\ opened[1] = {"clip1", "clip2"}

====
